---- MODULE Spec2Model ----
(***************************************************************************)
(* Model of cpython-build-assist: the two driver scripts                   *)
(*   install_cpython.py  and  install_all_minor_versions.py.               *)
(*                                                                         *)
(* Strings are sequences of one-character strings, so that indexing,       *)
(* slicing, splitting, parsing and lexicographic comparison are computed   *)
(* the way the Python code computes them.  The tag alphabet is digits,     *)
(* ".", "v" and "a"; it holds no "-" or "+", so the prerelease and build   *)
(* parts of a semantic version never occur in the strings drawn here.      *)
(***************************************************************************)
EXTENDS Integers, Sequences, FiniteSets, TLC

VARIABLES
    script,       \* which of the two scripts runs
    tags,         \* what `git tag` prints, already split on whitespace
    min_arg,      \* args.minimum_python_version
    max_arg,      \* args.maximum_python_version (None when not given)
    pull,         \* args.pull
    os_release,   \* content of /etc/os-release
    pc,           \* position of the script
    error,        \* the exception that ended the run ("none" while running)
    versions,     \* the (tag, version) pairs left after the selection
    version_tags, \* the selected tags, line 104 / line 69
    initial_ref,  \* the ref recorded by `git rev-parse HEAD`
    distro_like,  \* result of detect_distro_like
    todo,         \* commands of install_system_dependencies still to run
    loop,         \* sorted(version_tags, reverse=True)
    idx,          \* index of the tag the for loop is at
    step,         \* index of the next step of that tag's sequence
    log           \* every external command attempted, in order

vars == <<script, tags, min_arg, max_arg, pull, os_release, pc, error, versions,
          version_tags, initial_ref, distro_like, todo, loop, idx, step, log>>

\* Python's None where a string is expected
None == <<"None">>

\* distro_like before detect_distro_like has returned
NoDistro == "unset"

(* ------------------------------------------------------------------ *)
(* Bounds of the model                                                  *)
(* ------------------------------------------------------------------ *)
MaxTags == 3
MaxRunTags == 2

(* ------------------------------------------------------------------ *)
(* Characters and strings                                               *)
(* ------------------------------------------------------------------ *)
Digits == <<"0", "1", "2", "3", "4", "5", "6", "7", "8", "9">>

IsDigit(c) == \E i \in 1..Len(Digits) : Digits[i] = c

DigitVal(c) == (CHOOSE i \in 1..Len(Digits) : Digits[i] = c) - 1

\* Code point order of the characters that occur in tags.
Ord(c) ==
    CASE c = " " -> 32
      [] c = "." -> 46
      [] IsDigit(c) -> 48 + DigitVal(c)
      [] c = "a" -> 97
      [] c = "v" -> 118
      [] OTHER -> 0

\* s[1:]
Tail1(s) == IF s = <<>> THEN <<>> ELSE Tail(s)

\* Python's str < str: lexicographic on code points, a proper prefix is smaller.
RECURSIVE StrLess(_, _)
StrLess(a, b) ==
    IF b = <<>> THEN FALSE
    ELSE IF a = <<>> THEN TRUE
    ELSE IF Ord(Head(a)) # Ord(Head(b)) THEN Ord(Head(a)) < Ord(Head(b))
    ELSE StrLess(Tail(a), Tail(b))

\* str(int) for a non-negative int
RECURSIVE IntToStr(_)
IntToStr(n) ==
    IF n < 10 THEN <<Digits[n + 1]>>
    ELSE Append(IntToStr(n \div 10), Digits[(n % 10) + 1])

\* int(str) for a string of digits
RECURSIVE StrToInt(_)
StrToInt(s) ==
    IF s = <<>> THEN 0
    ELSE 10 * StrToInt(SubSeq(s, 1, Len(s) - 1)) + DigitVal(s[Len(s)])

\* s.split(sep) for a one-character separator: empty fields are kept.
RECURSIVE SplitOn(_, _)
SplitOn(s, sep) ==
    IF \A i \in 1..Len(s) : s[i] # sep THEN <<s>>
    ELSE LET k == CHOOSE i \in 1..Len(s) :
                      s[i] = sep /\ \A j \in 1..(i - 1) : s[j] # sep
         IN  <<SubSeq(s, 1, k - 1)>> \o SplitOn(SubSeq(s, k + 1, Len(s)), sep)

(* ------------------------------------------------------------------ *)
(* semantic_version.Version                                             *)
(* ------------------------------------------------------------------ *)
NoVersion == [major |-> -1, minor |-> -1, patch |-> -1]

AllDigits(s) == s # <<>> /\ \A i \in 1..Len(s) : IsDigit(s[i])

HasLeadingZero(s) == Len(s) > 1 /\ s[1] = "0"

\* Version(version_str): the three numeric fields, or NoVersion where the
\* constructor raises ValueError (safe_parse_version turns that into None).
safe_parse_version(s) ==
    LET parts == SplitOn(s, ".")
    IN  IF /\ Len(parts) = 3
           /\ \A i \in 1..3 : AllDigits(parts[i]) /\ ~HasLeadingZero(parts[i])
        THEN [major |-> StrToInt(parts[1]),
              minor |-> StrToInt(parts[2]),
              patch |-> StrToInt(parts[3])]
        ELSE NoVersion

\* Version.__lt__ on versions without prerelease or build
VersionLess(a, b) ==
    \/ a.major < b.major
    \/ a.major = b.major /\ a.minor < b.minor
    \/ a.major = b.major /\ a.minor = b.minor /\ a.patch < b.patch

VersionLeq(a, b) == a = b \/ VersionLess(a, b)

\* normalize_version: the tag with the version parsed from it, the leading
\* "v" dropped.  Only called on a non-empty tag (see HasEmptyTag).
normalize_version(version_tag) ==
    IF version_tag[1] = "v"
    THEN [tag |-> version_tag, version |-> safe_parse_version(Tail1(version_tag))]
    ELSE [tag |-> version_tag, version |-> safe_parse_version(version_tag)]

\* version_tag[0] raises IndexError on an empty string (a word that
\* get_versions, which splits on whitespace, never hands over).
HasEmptyTag(ts) == \E i \in 1..Len(ts) : ts[i] = <<>>

(* ------------------------------------------------------------------ *)
(* The selection of the tags to build                                   *)
(* ------------------------------------------------------------------ *)
Raised(exc) == [raised |-> exc, out |-> <<>>]

Returned(vs) == [raised |-> "none", out |-> vs]

\* The first two comprehensions of get_latest_minor_versions: every tag
\* normalized, the ones whose version is None dropped, order kept.
ParsedVersions(ts) ==
    SelectSeq([i \in 1..Len(ts) |-> normalize_version(ts[i])],
              LAMBDA p : p.version # NoVersion)

\* f'{version.major}.{version.minor}'
MinorKey(version) == IntToStr(version.major) \o <<".">> \o IntToStr(version.minor)

\* The keys of versions_by_minor_version, in insertion order.
RECURSIVE MinorKeys(_)
MinorKeys(vs) ==
    IF vs = <<>> THEN <<>>
    ELSE LET rest == MinorKeys(SubSeq(vs, 1, Len(vs) - 1))
             k == MinorKey(vs[Len(vs)].version)
         IN  IF \E i \in 1..Len(rest) : rest[i] = k THEN rest ELSE Append(rest, k)

\* versions_by_minor_version[k]: the pairs of that line, in list order.
MinorGroup(vs, k) == SelectSeq(vs, LAMBDA p : MinorKey(p.version) = k)

\* max(versions, key=lambda x: x[1]): the first pair whose version is maximal.
RECURSIVE PyMax(_)
PyMax(group) ==
    IF Len(group) = 1 THEN group[1]
    ELSE LET best == PyMax(SubSeq(group, 1, Len(group) - 1))
             last == group[Len(group)]
         IN  IF VersionLess(best.version, last.version) THEN last ELSE best

\* Grouping by minor version and taking the maximum of each group.
LatestPerMinor(vs) ==
    LET keys == MinorKeys(vs)
    IN  [i \in 1..Len(keys) |-> PyMax(MinorGroup(vs, keys[i]))]

\* [... if version >= Version(bound)]: Version(bound) is evaluated once per
\* element, so a bound that does not parse raises only on a non-empty list.
FilterAtLeast(vs, bound) ==
    IF vs = <<>> THEN Returned(<<>>)
    ELSE IF safe_parse_version(bound) = NoVersion THEN Raised("ValueError")
    ELSE Returned(SelectSeq(vs,
             LAMBDA p : VersionLeq(safe_parse_version(bound), p.version)))

\* Seeded fault: the maximum compared the wrong way round.
FilterAtMost_Reversed(vs, bound) ==
    IF vs = <<>> THEN Returned(<<>>)
    ELSE IF safe_parse_version(bound) = NoVersion THEN Raised("ValueError")
    ELSE Returned(SelectSeq(vs,
             LAMBDA p : VersionLeq(safe_parse_version(bound), p.version)))

\* [... if version <= Version(bound)]
FilterAtMost(vs, bound) ==
    IF vs = <<>> THEN Returned(<<>>)
    ELSE IF safe_parse_version(bound) = NoVersion THEN Raised("ValueError")
    ELSE Returned(SelectSeq(vs,
             LAMBDA p : VersionLeq(p.version, safe_parse_version(bound))))

\* Seeded fault: Version() called without the try/except of safe_parse_version,
\* so a tag that does not parse raises ValueError.
get_latest_minor_versions_unsafe(ts) ==
    IF HasEmptyTag(ts) THEN Raised("IndexError")
    ELSE IF \E i \in 1..Len(ts) : normalize_version(ts[i]).version = NoVersion
    THEN Raised("ValueError")
    ELSE Returned(LatestPerMinor(ParsedVersions(ts)))

\* install_cpython.py: get_latest_minor_versions(versions)
get_latest_minor_versions(ts) ==
    IF HasEmptyTag(ts) THEN Raised("IndexError")
    ELSE Returned(LatestPerMinor(ParsedVersions(ts)))

\* Seeded fault: the minimum itself is excluded (> in place of >=).
get_latest_minor_versions_all_strict(ts, minimum_version) ==
    IF HasEmptyTag(ts) THEN Raised("IndexError")
    ELSE LET kept == FilterAtLeast(ParsedVersions(ts), minimum_version)
         IN  IF kept.raised # "none" THEN kept
             ELSE Returned(LatestPerMinor(SelectSeq(kept.out,
                      LAMBDA p : p.version # safe_parse_version(minimum_version))))

\* install_all_minor_versions.py: get_latest_minor_versions(versions, minimum_version)
get_latest_minor_versions_all(ts, minimum_version) ==
    IF HasEmptyTag(ts) THEN Raised("IndexError")
    ELSE LET kept == FilterAtLeast(ParsedVersions(ts), minimum_version)
         IN  IF kept.raised # "none" THEN kept
             ELSE Returned(LatestPerMinor(kept.out))

\* install_cpython.py lines 99-103: the per-line maximum first, the bounds after.
SelectCpython(ts, mn, mx) ==
    LET latest == get_latest_minor_versions(ts)
        lower == IF latest.raised # "none" \/ mn = None THEN latest
                 ELSE FilterAtLeast(latest.out, mn)
    IN  IF lower.raised # "none" \/ mx = None THEN lower
        ELSE FilterAtMost(lower.out, mx)

\* install_all_minor_versions.py line 68
SelectAllMinor(ts, mn) == get_latest_minor_versions_all(ts, mn)

Selection(sc, ts, mn, mx) ==
    IF sc = "install_cpython" THEN SelectCpython(ts, mn, mx)
    ELSE SelectAllMinor(ts, mn)

\* [version_tag for version_tag, version in versions]
TagsOf(vs) == [i \in 1..Len(vs) |-> vs[i].tag]

\* sorted(version_tags, reverse=True): the tag strings, compared as strings.
RECURSIVE SortedReverse(_)
SortedReverse(ts) ==
    IF ts = <<>> THEN <<>>
    ELSE LET rest == SortedReverse(SubSeq(ts, 1, Len(ts) - 1))
             x == ts[Len(ts)]
             \* stable: x goes after every element that is not smaller than it
             n == Cardinality({i \in 1..Len(rest) : ~StrLess(rest[i], x)})
         IN  SubSeq(rest, 1, n) \o <<x>> \o SubSeq(rest, n + 1, Len(rest))

(* ------------------------------------------------------------------ *)
(* detect_distro_like and install_system_dependencies                   *)
(* ------------------------------------------------------------------ *)
target_prefix ==
    <<"I", "D", "_", "L", "I", "K", "E", "=">>

\* DistroLike.Debian.value
DistroDebianValue ==
    <<"d", "e", "b", "i", "a", "n">>

\* DistroLike.RedHatFedora.value
DistroRedHatFedoraValue ==
    <<"r", "h", "e", "l", " ", "f", "e", "d", "o", "r", "a">>

IsSpace(c) == c = " " \/ c = "\n"

\* str.split(): the maximal runs of non-whitespace characters.
RECURSIVE WhitespaceSplit(_)
WhitespaceSplit(s) ==
    IF s = <<>> THEN <<>>
    ELSE IF IsSpace(Head(s)) THEN WhitespaceSplit(Tail(s))
    ELSE LET ends == {i \in 1..Len(s) : IsSpace(s[i])}
             n == IF ends = {} THEN Len(s)
                  ELSE (CHOOSE i \in ends : \A j \in ends : i <= j) - 1
         IN  <<SubSeq(s, 1, n)>> \o WhitespaceSplit(SubSeq(s, n + 1, Len(s)))

\* line[:len(target_prefix)] == target_prefix
HasTargetPrefix(line) ==
    SubSeq(line, 1, IF Len(line) < Len(target_prefix) THEN Len(line)
                    ELSE Len(target_prefix)) = target_prefix

\* The list os_release of detect_distro_like: what follows "ID_LIKE=" in each
\* whitespace-separated word of the file that starts with it.
IdLikeWords(content) ==
    LET words == SelectSeq(WhitespaceSplit(content), HasTargetPrefix)
    IN  [i \in 1..Len(words) |->
            SubSeq(words[i], Len(target_prefix) + 1, Len(words[i]))]

\* DistroLike(value): the member with that value, or ValueError.
DistroLike(value) ==
    IF value = DistroDebianValue THEN Returned("Debian")
    ELSE IF value = DistroRedHatFedoraValue THEN Returned("RedHatFedora")
    ELSE Raised("ValueError")

\* detect_distro_like(); a missing file makes open() raise FileNotFoundError.
detect_distro_like(content) ==
    IF content = None THEN Raised("FileNotFoundError")
    ELSE IF Len(IdLikeWords(content)) # 1 THEN Raised("ValueError")
    ELSE DistroLike(IdLikeWords(content)[1])

\* The commands install_system_dependencies runs, in order.
install_system_dependencies(distro) ==
    IF distro = "Debian"
    THEN <<"apt update", "apt build-dep -y python3", "apt install -y build-essential ...">>
    ELSE <<"yum install -y yum-utils", "yum-builddep -y python3">>

(* ------------------------------------------------------------------ *)
(* External commands                                                    *)
(* ------------------------------------------------------------------ *)
\* What running a command through safe_run_process can do:
\*   ok       exit status 0
\*   nonzero  exit status not 0, output printed, OSError raised (line 85)
\*   nostart  Popen cannot start the command and raises an OSError subclass
\*   garbled  exit status not 0 and out.decode() raises UnicodeDecodeError
SafeRunOutcomes == {"ok", "nonzero", "nostart", "garbled"}

\* The exception safe_run_process leaves with ("none": it returns).
safe_run_process(outcome) ==
    CASE outcome = "ok" -> "none"
      [] outcome = "nonzero" -> "OSError"
      [] outcome = "nostart" -> "OSError"
      [] outcome = "garbled" -> "UnicodeDecodeError"

\* subprocess.check_output: CalledProcessError on a non-zero exit status.
CheckOutputOutcomes == {"ok", "nonzero", "nostart"}

check_output(outcome) ==
    CASE outcome = "ok" -> "none"
      [] outcome = "nonzero" -> "CalledProcessError"
      [] outcome = "nostart" -> "OSError"

\* subprocess.check_output(...).decode(), as get_versions and the recording of
\* the initial ref use it: besides the outcomes of check_output,
\*   garbled  exit status 0, but the bytes printed are not UTF-8, so that
\*            .decode() raises UnicodeDecodeError
DecodedOutputOutcomes == CheckOutputOutcomes \cup {"garbled"}

check_output_decode(outcome) ==
    IF outcome = "garbled" THEN "UnicodeDecodeError" ELSE check_output(outcome)

\* except OSError: the handler of the for loop catches OSError and its subclasses.
CaughtByLoop(exc) == exc = "OSError"

\* The seven commands of one tag's sequence, lines 123-137 and 83-97.
TagSteps(sc) ==
    IF sc = "install_cpython"
    THEN <<"git add -A", "git reset --hard", "git checkout",
           "./configure --enable-optimizations", "make clean", "make -j", "make altinstall">>
    ELSE <<"git add -A", "git reset --hard", "git checkout",
           "./configure", "make clean", "make", "make altinstall">>

\* One line of the log: the command, the tag or ref it names (or the tag whose
\* sequence it belongs to), how it ended, and its place in a tag's sequence
\* (0 for a command outside the for loop).
Entry(cmd, arg, outcome, k) == [cmd |-> cmd, arg |-> arg, outcome |-> outcome, step |-> k]

(* ------------------------------------------------------------------ *)
(* Inputs                                                               *)
(* ------------------------------------------------------------------ *)
Tag_v3_8_1 ==
    <<"v", "3", ".", "8", ".", "1">>

Tag_v3_8_5 ==
    <<"v", "3", ".", "8", ".", "5">>

Tag_3_8_5 ==
    <<"3", ".", "8", ".", "5">>

Tag_v3_9_0 ==
    <<"v", "3", ".", "9", ".", "0">>

Tag_v3_10_0 ==
    <<"v", "3", ".", "1", "0", ".", "0">>

Tag_v3_9_0a1 ==
    <<"v", "3", ".", "9", ".", "0", "a", "1">>

Tag_v3_08_1 ==
    <<"v", "3", ".", "0", "8", ".", "1">>

Tag_v ==
    <<"v">>

Ver_3_0_0 ==
    <<"3", ".", "0", ".", "0">>

Ver_3_8_3 ==
    <<"3", ".", "8", ".", "3">>

Ver_3_9_0 ==
    <<"3", ".", "9", ".", "0">>

Ver_3_8 ==
    <<"3", ".", "8">>

\* an Ubuntu file: one ID_LIKE line, value debian
OsUbuntu ==
    <<"I", "D", "=", "u", "b", "u", "n", "t", "u", "\n", "I", "D", "_", "L",
      "I", "K", "E", "=", "d", "e", "b", "i", "a", "n", "\n">>

\* one ID_LIKE line, value rhel fedora
OsCentos ==
    <<"I", "D", "=", "c", "e", "n", "t", "o", "s", "\n", "I", "D", "_", "L",
      "I", "K", "E", "=", "r", "h", "e", "l", " ", "f", "e", "d", "o", "r",
      "a", "\n">>

\* no ID_LIKE line
OsDebian ==
    <<"I", "D", "=", "d", "e", "b", "i", "a", "n", "\n">>

\* one ID_LIKE line, value arch
OsArch ==
    <<"I", "D", "_", "L", "I", "K", "E", "=", "a", "r", "c", "h", "\n">>

\* two ID_LIKE lines
OsTwice ==
    <<"I", "D", "_", "L", "I", "K", "E", "=", "d", "e", "b", "i", "a", "n",
      "\n", "I", "D", "_", "L", "I", "K", "E", "=", "d", "e", "b", "i", "a",
      "n", "\n">>

\* Every sequence over S of length at most n
SeqsUpTo(S, n) == UNION {[1..k -> S] : k \in 0..n}

\* Tag strings handed to the selection, each a word str.split() can yield (so
\* none is empty): well-formed ones of three minor lines, one without the
\* leading "v", and three malformed ones: a prerelease written without "-",
\* a field with a leading zero, and the bare marker "v".
TagUniverse ==
    {Tag_v3_8_1, Tag_v3_8_5, Tag_3_8_5, Tag_v3_9_0, Tag_v3_10_0,
     Tag_v3_9_0a1, Tag_v3_08_1, Tag_v}

\* Tags `git tag` prints in the runs of the driver (split() yields no empty word).
RunTagUniverse == {Tag_v3_8_1, Tag_v3_9_0, Tag_v3_10_0, Tag_v3_9_0a1}

\* Values of --min and --max: three versions and one string that is no version.
BoundStrings == {Ver_3_0_0, Ver_3_8_3, Ver_3_9_0, Ver_3_8}

\* Contents of /etc/os-release; None: the file does not exist.
OsReleaseFiles == {OsUbuntu, OsCentos, OsDebian, OsArch, OsTwice, None}

\* What `git rev-parse HEAD` may print.
Refs == {<<"0", "a", "1", "b">>, <<"9", "f", "8", "e">>}

Scripts == {"install_cpython", "install_all_minor_versions"}

(* ------------------------------------------------------------------ *)
(* The run of a script                                                  *)
(* ------------------------------------------------------------------ *)
Fresh ==
    /\ error = "none"
    /\ versions = <<>>
    /\ version_tags = <<>>
    /\ initial_ref = None
    /\ distro_like = NoDistro
    /\ todo = <<>>
    /\ loop = <<>>
    /\ idx = 1
    /\ step = 1
    /\ log = <<>>

\* A run of either script: default --min, no --max.
Init ==
    /\ script \in Scripts
    /\ tags \in SeqsUpTo(RunTagUniverse, MaxRunTags)
    /\ min_arg = Ver_3_0_0
    /\ max_arg = None
    /\ pull \in BOOLEAN
    /\ os_release \in IF script = "install_cpython" THEN OsReleaseFiles ELSE {None}
    /\ pc = "start"
    /\ Fresh

Crash(exc) == pc' = "crashed" /\ error' = exc

\* line 98 / line 67: get_versions runs `git tag` and decodes what it prints
\* (line 45 / line 12).
GetVersions ==
    /\ pc = "start"
    /\ \E o \in DecodedOutputOutcomes :
          /\ log' = Append(log, Entry("git tag", None, o, 0))
          /\ IF check_output_decode(o) = "none"
             THEN pc' = "tagged" /\ error' = error
             ELSE Crash(check_output_decode(o))
    /\ UNCHANGED <<script, tags, min_arg, max_arg, pull, os_release, versions,
                   version_tags, initial_ref, distro_like, todo, loop, idx, step>>

\* lines 99-104 / lines 68-69: the selection of the tags to build.
Select ==
    /\ pc = "tagged"
    /\ LET r == Selection(script, tags, min_arg, max_arg)
       IN  IF r.raised # "none"
           THEN Crash(r.raised) /\ UNCHANGED <<versions, version_tags>>
           ELSE /\ versions' = r.out
                /\ version_tags' = TagsOf(r.out)
                /\ pc' = "selected"
                /\ error' = error
    /\ UNCHANGED <<script, tags, min_arg, max_arg, pull, os_release, initial_ref,
                   distro_like, todo, loop, idx, step, log>>

\* line 106 / line 71: initial_ref = `git rev-parse HEAD`, decoded.
RecordRef ==
    /\ pc = "selected"
    /\ \E o \in DecodedOutputOutcomes :
          /\ log' = Append(log, Entry("git rev-parse HEAD", None, o, 0))
          /\ IF check_output_decode(o) = "none"
             THEN /\ \E ref \in Refs : initial_ref' = ref
                  /\ pc' = IF script = "install_cpython" THEN "detect" ELSE "pull"
                  /\ error' = error
             ELSE Crash(check_output_decode(o)) /\ initial_ref' = initial_ref
    /\ UNCHANGED <<script, tags, min_arg, max_arg, pull, os_release, versions,
                   version_tags, distro_like, todo, loop, idx, step>>

\* Seeded fault: the error of detect_distro_like is swallowed and the run goes on.
DetectDistro_ErrorSwallowed ==
    /\ pc = "detect"
    /\ LET r == detect_distro_like(os_release)
       IN  IF r.raised # "none"
           THEN pc' = "pull" /\ UNCHANGED <<error, distro_like, todo>>
           ELSE /\ distro_like' = r.out
                /\ todo' = install_system_dependencies(r.out)
                /\ pc' = "deps"
                /\ error' = error
    /\ UNCHANGED <<script, tags, min_arg, max_arg, pull, os_release, versions,
                   version_tags, initial_ref, loop, idx, step, log>>

\* line 111 of install_cpython.py: distro_like = detect_distro_like().
DetectDistro ==
    /\ pc = "detect"
    /\ LET r == detect_distro_like(os_release)
       IN  IF r.raised # "none"
           THEN Crash(r.raised) /\ UNCHANGED <<distro_like, todo>>
           ELSE /\ distro_like' = r.out
                /\ todo' = install_system_dependencies(r.out)
                /\ pc' = "deps"
                /\ error' = error
    /\ UNCHANGED <<script, tags, min_arg, max_arg, pull, os_release, versions,
                   version_tags, initial_ref, loop, idx, step, log>>

\* line 112: one safe_run_process call of install_system_dependencies.
InstallDependency ==
    /\ pc = "deps"
    /\ \E o \in SafeRunOutcomes :
          /\ log' = Append(log, Entry(Head(todo), None, o, 0))
          /\ IF safe_run_process(o) = "none"
             THEN /\ todo' = Tail(todo)
                  /\ pc' = IF Tail(todo) = <<>> THEN "pull" ELSE "deps"
                  /\ error' = error
             ELSE Crash(safe_run_process(o)) /\ todo' = todo
    /\ UNCHANGED <<script, tags, min_arg, max_arg, pull, os_release, versions,
                   version_tags, initial_ref, distro_like, loop, idx, step>>

\* lines 114-120 / 74-80: the optional `git pull`, then the for loop is entered
\* over sorted(version_tags, reverse=True).
Pull ==
    /\ pc = "pull"
    /\ \/ /\ pull
          /\ \E o \in SafeRunOutcomes :
                /\ log' = Append(log, Entry("git pull", None, o, 0))
                /\ IF safe_run_process(o) = "none"
                   THEN /\ pc' = "loop"
                        /\ loop' = SortedReverse(version_tags)
                        /\ error' = error
                   ELSE Crash(safe_run_process(o)) /\ loop' = loop
       \/ /\ ~pull
          /\ pc' = "loop"
          /\ loop' = SortedReverse(version_tags)
          /\ UNCHANGED <<error, log>>
    /\ UNCHANGED <<script, tags, min_arg, max_arg, pull, os_release, versions,
                   version_tags, initial_ref, distro_like, todo, idx, step>>

\* Seeded fault: each call has its own try/except, so a failed command does not
\* end the tag's sequence.
RunStep_NoAbort ==
    /\ pc = "loop"
    /\ idx <= Len(loop)
    /\ \E o \in SafeRunOutcomes :
          /\ log' = Append(log, Entry(TagSteps(script)[step], loop[idx], o, step))
          /\ IF safe_run_process(o) = "none" \/ CaughtByLoop(safe_run_process(o))
             THEN /\ idx' = IF step = Len(TagSteps(script)) THEN idx + 1 ELSE idx
                  /\ step' = IF step = Len(TagSteps(script)) THEN 1 ELSE step + 1
                  /\ UNCHANGED <<pc, error>>
             ELSE Crash(safe_run_process(o)) /\ UNCHANGED <<idx, step>>
    /\ UNCHANGED <<script, tags, min_arg, max_arg, pull, os_release, versions,
                   version_tags, initial_ref, distro_like, todo, loop>>

\* lines 121-139 / 81-99: one safe_run_process call of the current tag's
\* sequence; an OSError ends the sequence and the loop continues with the next tag.
RunStep ==
    /\ pc = "loop"
    /\ idx <= Len(loop)
    /\ \E o \in SafeRunOutcomes :
          /\ log' = Append(log, Entry(TagSteps(script)[step], loop[idx], o, step))
          /\ IF safe_run_process(o) = "none"
             THEN /\ idx' = IF step = Len(TagSteps(script)) THEN idx + 1 ELSE idx
                  /\ step' = IF step = Len(TagSteps(script)) THEN 1 ELSE step + 1
                  /\ UNCHANGED <<pc, error>>
             ELSE IF CaughtByLoop(safe_run_process(o))
             THEN /\ idx' = idx + 1
                  /\ step' = 1
                  /\ UNCHANGED <<pc, error>>
             ELSE Crash(safe_run_process(o)) /\ UNCHANGED <<idx, step>>
    /\ UNCHANGED <<script, tags, min_arg, max_arg, pull, os_release, versions,
                   version_tags, initial_ref, distro_like, todo, loop>>

\* line 142 / line 102: `git checkout <initial_ref>` once the loop is over.
Restore ==
    /\ pc = "loop"
    /\ idx > Len(loop)
    /\ \E o \in CheckOutputOutcomes :
          /\ log' = Append(log, Entry("git checkout", initial_ref, o, 0))
          /\ IF o = "ok" THEN pc' = "done" /\ error' = error
             ELSE Crash(check_output(o))
    /\ UNCHANGED <<script, tags, min_arg, max_arg, pull, os_release, versions,
                   version_tags, initial_ref, distro_like, todo, loop, idx, step>>

Next ==
    \/ GetVersions
    \/ Select
    \/ RecordRef
    \/ DetectDistro
    \/ InstallDependency
    \/ Pull
    \/ RunStep
    \/ Restore

Spec == Init /\ [][Next]_vars

(* ------------------------------------------------------------------ *)
(* The selection alone, on any tag list `git tag` can give, any bounds *)
(* ------------------------------------------------------------------ *)
InitSelect ==
    /\ script \in Scripts
    /\ tags \in SeqsUpTo(TagUniverse, MaxTags)
    /\ min_arg \in BoundStrings
    /\ max_arg \in IF script = "install_cpython" THEN BoundStrings \cup {None}
                   ELSE {None}
    /\ pull = FALSE
    /\ os_release = None
    /\ pc = "tagged"
    /\ Fresh

NextSelect == Select

SpecSelect == InitSelect /\ [][NextSelect]_vars

(* ------------------------------------------------------------------ *)
(* Vocabulary of the properties                                         *)
(* ------------------------------------------------------------------ *)
\* The version a tag stands for: parsed after an optional leading "v";
\* NoVersion for a tag that does not parse.
ParsedOf(t) == IF t = <<>> THEN NoVersion ELSE normalize_version(t).version

MinVersion == safe_parse_version(min_arg)

MaxVersion == IF max_arg = None THEN NoVersion ELSE safe_parse_version(max_arg)

BoundsParse == MinVersion # NoVersion /\ (max_arg = None \/ MaxVersion # NoVersion)

BelowMin(v) == VersionLess(v, MinVersion)

AboveMax(v) == max_arg # None /\ VersionLess(MaxVersion, v)

InBounds(v) == v # NoVersion /\ ~BelowMin(v) /\ ~AboveMax(v)

SameLine(a, b) == a.major = b.major /\ a.minor = b.minor

Range(seq) == {seq[i] : i \in 1..Len(seq)}

Ended == pc \in {"done", "crashed"}

\* Log entries of the commands run through safe_run_process.
ViaSafeRun(e) ==
    /\ e.cmd \notin {"git tag", "git rev-parse HEAD"}
    /\ ~(e.cmd = "git checkout" /\ e.step = 0)

InTagSequence(e) == e.step > 0

RestoreAttempted ==
    \E i \in 1..Len(log) :
        log[i].cmd = "git checkout" /\ log[i].step = 0 /\ log[i].arg = initial_ref

\* The values of the ID_LIKE lines of an os-release file, read line by line.
IdLikeLineValues(content) ==
    IF content = None THEN <<>>
    ELSE LET lines == SelectSeq(SplitOn(content, "\n"), HasTargetPrefix)
         IN  [i \in 1..Len(lines) |->
                 SubSeq(lines[i], Len(target_prefix) + 1, Len(lines[i]))]

(* ------------------------------------------------------------------ *)
(* C1                                                                   *)
(* ------------------------------------------------------------------ *)
\* C1: once the selection has returned, every (major, minor) line with a tag
\* that parses to a version inside [min, max] has exactly one entry in the
\* selection, and that entry is the greatest in-bounds version of the line.
C1_OneEntryPerLineInBounds ==
    (pc = "selected" /\ BoundsParse) =>
        \A i \in 1..Len(tags) :
            InBounds(ParsedOf(tags[i])) =>
                LET entries == {k \in 1..Len(versions) :
                                   SameLine(versions[k].version, ParsedOf(tags[i]))}
                IN  /\ Cardinality(entries) = 1
                    /\ \A k \in entries :
                          /\ InBounds(versions[k].version)
                          /\ \A j \in 1..Len(tags) :
                                (/\ InBounds(ParsedOf(tags[j]))
                                 /\ SameLine(ParsedOf(tags[j]), ParsedOf(tags[i])))
                                => VersionLeq(ParsedOf(tags[j]), versions[k].version)

\* The same statement for the runs without --max, where the code meets it.
C1_HoldsWithoutMax == max_arg = None => C1_OneEntryPerLineInBounds

(* ------------------------------------------------------------------ *)
(* C2                                                                   *)
(* ------------------------------------------------------------------ *)
\* C2: no tag of the list the for loop iterates over stands for a version
\* below the minimum or above the maximum.
C2_NoSelectedTagOutOfBounds ==
    pc = "selected" =>
        \A t \in Range(SortedReverse(version_tags)) :
            ~BelowMin(ParsedOf(t)) /\ ~AboveMax(ParsedOf(t))

\* A selection that returned tags although the list held a tag below the
\* minimum and a tag above the maximum.
C2_Witness ==
    /\ pc = "selected"
    /\ version_tags # <<>>
    /\ \E i \in 1..Len(tags) : ParsedOf(tags[i]) # NoVersion /\ BelowMin(ParsedOf(tags[i]))
    /\ \E i \in 1..Len(tags) : AboveMax(ParsedOf(tags[i]))

(* ------------------------------------------------------------------ *)
(* C3                                                                   *)
(* ------------------------------------------------------------------ *)
\* C3: with bounds that parse, the selection raises nothing whatever the tag
\* strings are, and every tag it returns parses as a version.
C3_MalformedTagsDroppedNotRaised ==
    BoundsParse =>
        /\ pc # "crashed"
        /\ pc = "selected" => \A t \in Range(version_tags) : ParsedOf(t) # NoVersion

\* A selection that returned a tag from a list that also held two different
\* malformed tags.
C3_Witness ==
    /\ pc = "selected"
    /\ BoundsParse
    /\ version_tags # <<>>
    /\ Cardinality({t \in Range(tags) : ParsedOf(t) = NoVersion}) >= 2

(* ------------------------------------------------------------------ *)
(* C10                                                                  *)
(* ------------------------------------------------------------------ *)
\* C10: without --max, what one script selected (or the exception it raised)
\* is what the other script's selection gives on the same tags and minimum:
\* the same set of tags, hence the same list for the for loop.
C10_BothScriptsSelectTheSame ==
    (max_arg = None /\ pc # "tagged") =>
        LET other == IF script = "install_cpython"
                     THEN SelectAllMinor(tags, min_arg)
                     ELSE SelectCpython(tags, min_arg, None)
        IN  /\ pc = "crashed" <=> other.raised # "none"
            /\ pc = "crashed" => error = other.raised
            /\ pc = "selected" =>
                  /\ Range(version_tags) = Range(TagsOf(other.out))
                  /\ SortedReverse(version_tags) = SortedReverse(TagsOf(other.out))

\* A selection in which the minimum removed a tag of a line that stays
\* selected, and the two scripts return their equal sets in different orders.
C10_Witness ==
    /\ max_arg = None
    /\ pc = "selected"
    /\ script = "install_cpython"
    /\ \E i \in 1..Len(tags) : ParsedOf(tags[i]) # NoVersion /\ BelowMin(ParsedOf(tags[i]))
    /\ Len(version_tags) >= 2
    /\ version_tags # TagsOf(SelectAllMinor(tags, min_arg).out)

(* ------------------------------------------------------------------ *)
(* C4                                                                   *)
(* ------------------------------------------------------------------ *)
\* Commands that change the repository.
Mutating(e) == e.cmd = "git pull" \/ InTagSequence(e)

\* C4: a run that recorded the initial ref does not end without having run
\* `git checkout` on exactly that ref, and nothing that changes the repository
\* runs before the ref is recorded.  The fatal error of an unsupported
\* distribution (C7) is not counted against the claim: only runs that got past
\* the detection are looked at.
C4_RestoreAlwaysRuns ==
    /\ (Ended /\ initial_ref # None /\ (script = "install_cpython" => distro_like # NoDistro))
          => RestoreAttempted
    /\ \A i \in 1..Len(log) :
          Mutating(log[i]) =>
              \E j \in 1..(i - 1) :
                  log[j].cmd = "git rev-parse HEAD" /\ log[j].outcome = "ok"

(* ------------------------------------------------------------------ *)
(* C5                                                                   *)
(* ------------------------------------------------------------------ *)
FailedViaSafeRun(e) == ViaSafeRun(e) /\ e.outcome # "ok"

\* C5: a command run through safe_run_process that fails does not end the run;
\* a run in which one failed has, when it ends, attempted every selected tag
\* and the restoration.
C5_FailuresNeverEndTheRun ==
    /\ pc = "crashed" => ~FailedViaSafeRun(log[Len(log)])
    /\ (Ended /\ \E i \in 1..Len(log) : FailedViaSafeRun(log[i])) =>
          /\ \A t \in Range(version_tags) :
                \E i \in 1..Len(log) : InTagSequence(log[i]) /\ log[i].arg = t
          /\ RestoreAttempted

(* ------------------------------------------------------------------ *)
(* C6                                                                   *)
(* ------------------------------------------------------------------ *)
\* C6: a tag whose commands run before those of another tag stands for the
\* greater version.
C6_DescendingVersionOrder ==
    \A i, j \in 1..Len(log) :
        (/\ i < j
         /\ InTagSequence(log[i])
         /\ InTagSequence(log[j])
         /\ log[i].arg # log[j].arg)
        => VersionLess(ParsedOf(log[j].arg), ParsedOf(log[i].arg))

\* What the code does instead: the tags run in descending order of the tag strings.
C6_DescendingStringOrder ==
    \A i, j \in 1..Len(log) :
        (/\ i < j
         /\ InTagSequence(log[i])
         /\ InTagSequence(log[j])
         /\ log[i].arg # log[j].arg)
        => StrLess(log[j].arg, log[i].arg)

(* ------------------------------------------------------------------ *)
(* C7                                                                   *)
(* ------------------------------------------------------------------ *)
\* C7: in install_cpython.py, when detect_distro_like raises on the content of
\* /etc/os-release, the run never gets past the detection, cannot end normally,
\* and has run neither `git pull` nor any command of a tag's sequence.
C7_UnsupportedDistroIsFatalBeforeBuild ==
    (script = "install_cpython" /\ detect_distro_like(os_release).raised # "none") =>
        /\ pc \in {"start", "tagged", "selected", "detect", "crashed"}
        /\ pc = "crashed" /\ initial_ref # None =>
              error = detect_distro_like(os_release).raised
        /\ \A i \in 1..Len(log) : ~Mutating(log[i])

\* The run that the detection ended: the ref recorded, a file without an
\* ID_LIKE line, the error raised.
C7_Witness ==
    /\ script = "install_cpython"
    /\ os_release = OsDebian
    /\ initial_ref # None
    /\ pc = "crashed"
    /\ error = "ValueError"

(* ------------------------------------------------------------------ *)
(* C8                                                                   *)
(* ------------------------------------------------------------------ *)
\* C8: the commands of a tag run in the order of its sequence; a command other
\* than the first runs only right after the one before it of the same tag has
\* exited zero, and the first command of a tag runs only when no command of
\* that tag has run yet.
C8_StepsInOrderAndGated ==
    \A j \in 1..Len(log) :
        InTagSequence(log[j]) =>
            /\ log[j].step \in 1..7
            /\ log[j].cmd = TagSteps(script)[log[j].step]
            /\ log[j].step > 1 =>
                  /\ j > 1
                  /\ log[j - 1].arg = log[j].arg
                  /\ log[j - 1].step = log[j].step - 1
                  /\ log[j - 1].outcome = "ok"
            /\ log[j].step = 1 =>
                  \A i \in 1..(j - 1) :
                      ~(InTagSequence(log[i]) /\ log[i].arg = log[j].arg)

\* A tag whose ./configure exited non-zero, followed by the first command of
\* the next tag.
C8_Witness ==
    \E j \in 2..Len(log) :
        /\ log[j - 1].step = 4
        /\ log[j - 1].outcome = "nonzero"
        /\ log[j].step = 1
        /\ log[j].arg # log[j - 1].arg

(* ------------------------------------------------------------------ *)
(* C9                                                                   *)
(* ------------------------------------------------------------------ *)
\* C9: once install_cpython.py is past the detection, a file whose only
\* ID_LIKE line has the value "debian" has given Debian, and one whose only
\* ID_LIKE line has the value "rhel fedora" has given RedHatFedora.
C9_DetectsBothFamilies ==
    (script = "install_cpython" /\ initial_ref # None /\ pc # "detect") =>
        /\ IdLikeLineValues(os_release) = <<DistroDebianValue>>
              => distro_like = "Debian"
        /\ IdLikeLineValues(os_release) = <<DistroRedHatFedoraValue>>
              => distro_like = "RedHatFedora"

\* The half of C9 the code meets.
C9_DetectsDebian ==
    (script = "install_cpython" /\ initial_ref # None /\ pc # "detect") =>
        (IdLikeLineValues(os_release) = <<DistroDebianValue>>
            => distro_like = "Debian")

====
